---- MODULE Spec2Model ----
(***************************************************************************)
(* Model of calsplit.py (Calendar ICS Splitter): main() calls              *)
(* split_ics_file(input_file, max_size_mb), which parses one calendar,     *)
(* sorts its VEVENT components by get_event_date and writes them into      *)
(* size-bounded part files.                                                *)
(*                                                                         *)
(* Sizes are counted in abstract bytes: a calendar serialises to a frame,  *)
(* one line per top-level property and the serialisation of each of its    *)
(* sub-components; a component serialises to a frame, one line per date    *)
(* property present and its remaining content (body).                      *)
(***************************************************************************)
EXTENDS Integers, Sequences, FiniteSets

VARIABLES
    pc,               \* position of the run: start, loop, remaining, done,
                      \* parse_failed, write_failed
    input_file,       \* the path given on the command line, as tokens
    input_props,      \* top-level properties of the parsed calendar
    input_components, \* sub-components of the parsed calendar, in file order
    limit_bytes,      \* max_size_mb * 1024 * 1024, the configured limit
    max_size,         \* effective limit computed at line 48
    events,           \* the VEVENT list, sorted at line 61
    cal_properties,   \* the replicated properties, lines 64-67
    base_name,        \* os.path.splitext(input_file)[0], line 81
    current_events,   \* the batch being accumulated
    file_counter,     \* the part counter
    idx,              \* position of the for loop of line 84 (next event)
    files,            \* the files written so far, in write order
    failed_part,      \* what the write that failed left on disk: nothing, or
                      \* the one part file it had opened
    outcome,          \* what main reports: running, success, error
    probe_event,      \* the argument of a call of get_event_date
    probe_key         \* the value that call returned

vars == <<pc, input_file, input_props, input_components, limit_bytes, max_size,
          events, cal_properties, base_name, current_events, file_counter,
          idx, files, failed_part, outcome, probe_event, probe_key>>

\* What a run of split_ics_file leaves alone: the call of get_event_date
\* observed on its own.
extras == <<probe_event, probe_key>>

\* ------------------------------------------------------------------ bounds

\* Largest number of sub-components of an input calendar.
MaxComponents == 4

\* Largest day and largest time of day of a date value given to
\* get_event_date on its own.
MaxDay == 2
MaxTod == 1

\* ------------------------------------------------------------- data model

Absent == [kind |-> "absent", day |-> 0, tod |-> 0, off |-> 0]
DateOnly(d) == [kind |-> "date", day |-> d, tod |-> 0, off |-> 0]
Naive(d, t) == [kind |-> "naive", day |-> d, tod |-> t, off |-> 0]
Aware(d, t, o) == [kind |-> "aware", day |-> d, tod |-> t, off |-> o]

Component(n, s, p, c, b) ==
    [name |-> n, DTSTART |-> s, DTSTAMP |-> p, CREATED |-> c, body |-> b]

\* The components an input calendar is built from: five events of different
\* date fields and sizes (two of them with the same sort key) and a
\* component that is not an event.
ComponentUniverse ==
    { Component("VEVENT", Absent, Absent, Absent, 0),
      Component("VEVENT", DateOnly(2), Absent, Absent, 0),
      Component("VEVENT", Aware(2, 0, 1), Naive(1, 5), Absent, 1),
      Component("VEVENT", Absent, Naive(3, 1), Naive(1, 0), 0),
      Component("VEVENT", Absent, Absent, Naive(1, 7), 9),
      Component("VTIMEZONE", Absent, Absent, Absent, 1) }

\* The values a date property can hold, and the events get_event_date is
\* applied to on its own: every combination of the three date properties.
DateValues ==
    {Absent}
    \cup { DateOnly(d) : d \in 1..MaxDay }
    \cup { Naive(d, t) : d \in 1..MaxDay, t \in 0..MaxTod }
    \cup { Aware(d, t, o) : d \in 1..MaxDay, t \in 0..MaxTod, o \in {-1, 1} }

ProbeEvents ==
    { Component("VEVENT", s, p, c, 0) : s \in DateValues, p \in DateValues,
                                        c \in DateValues }

EventUniverse == { c \in ComponentUniverse : c.name = "VEVENT" }

CarriedAttrs == {"VERSION", "PRODID", "CALSCALE", "METHOD"}

Restrict(f, S) == [a \in (DOMAIN f) \cap S |-> f[a]]

InputPropsChoices ==
    { Restrict([a \in CarriedAttrs |-> "v"], {}),
      [a \in {"VERSION", "PRODID", "X-WR-CALNAME"} |->
          IF a = "VERSION" THEN "2.0" ELSE "p"],
      [a \in CarriedAttrs |-> IF a = "VERSION" THEN "1.0" ELSE "q"] }

InputFileChoices ==
    { <<"cal", ".", "ics">>,
      <<"cal", ".", "v2", ".", "txt">>,
      <<"d", ".", "x", "/", "cal">> }

LimitChoices == {10, 14, 30}

SeqsUpTo(S, n) == UNION { [1..k -> S] : k \in 0..n }

\* ------------------------------------------------------- get_event_date

DateTimeMin == [day |-> 1, tod |-> 0]

FieldKey(v) ==
    IF v.kind = "date" THEN [day |-> v.day, tod |-> 0]
    ELSE [day |-> v.day, tod |-> v.tod]

\* Mutant: DTSTAMP is looked up before DTSTART.
get_event_date_StampFirst(event) ==
    IF event.DTSTAMP.kind # "absent" THEN FieldKey(event.DTSTAMP)
    ELSE IF event.DTSTART.kind # "absent" THEN FieldKey(event.DTSTART)
    ELSE IF event.CREATED.kind # "absent" THEN FieldKey(event.CREATED)
    ELSE DateTimeMin

get_event_date(event) ==
    IF event.DTSTART.kind # "absent" THEN FieldKey(event.DTSTART)
    ELSE IF event.DTSTAMP.kind # "absent" THEN FieldKey(event.DTSTAMP)
    ELSE IF event.CREATED.kind # "absent" THEN FieldKey(event.CREATED)
    ELSE DateTimeMin

KeyLess(a, b) == a.day < b.day \/ (a.day = b.day /\ a.tod < b.tod)

\* ------------------------------------------------------------ list.sort

\* list.sort(key=...) is stable: an element is placed after every element
\* already in place whose key is not greater than its own.
RECURSIVE InsertPos(_, _, _)
InsertPos(sorted, k, i) ==
    IF i > Len(sorted) THEN i
    ELSE IF KeyLess(k, get_event_date(sorted[i])) THEN i
    ELSE InsertPos(sorted, k, i + 1)

InsertByKey(sorted, e) ==
    LET p == InsertPos(sorted, get_event_date(e), 1)
    IN  SubSeq(sorted, 1, p - 1) \o <<e>> \o SubSeq(sorted, p, Len(sorted))

RECURSIVE SortFrom(_, _, _)
SortFrom(seq, i, acc) ==
    IF i > Len(seq) THEN acc
    ELSE SortFrom(seq, i + 1, InsertByKey(acc, seq[i]))

SortEvents(seq) == SortFrom(seq, 1, <<>>)

\* ------------------------------------------------------------ parsing

\* [comp for comp in cal.walk() if comp.name == 'VEVENT']
VEvents(components) == SelectSeq(components, LAMBDA c : c.name = "VEVENT")

\* int(max_size_mb * 1024 * 1024 * 0.95)
EffectiveLimit(limit) == (limit * 95) \div 100

\* ----------------------------------------------------------- os.path

RECURSIVE LastIndexOf(_, _, _)
LastIndexOf(path, tok, i) ==
    IF i = 0 THEN 0
    ELSE IF path[i] = tok THEN i
    ELSE LastIndexOf(path, tok, i - 1)

\* os.path.splitext: the extension starts at the last dot of the last path
\* component, unless only dots precede it in that component.
SplitextDot(path) ==
    LET sep == LastIndexOf(path, "/", Len(path))
        dot == LastIndexOf(path, ".", Len(path))
    IN  IF dot > sep /\ \E j \in (sep + 1)..(dot - 1) : path[j] # "."
        THEN dot ELSE Len(path) + 1

SplitextRoot(path) == SubSeq(path, 1, SplitextDot(path) - 1)
SplitextExt(path) == SubSeq(path, SplitextDot(path), Len(path))

\* f"{base_name}_part{file_counter}.ics"
OutputName(base, counter) ==
    [root |-> base, part |-> counter, ext |-> <<".", "ics">>]

\* ------------------------------------------------------- serialisation

ComponentLen(c) ==
    2 + (IF c.DTSTART.kind # "absent" THEN 1 ELSE 0)
      + (IF c.DTSTAMP.kind # "absent" THEN 1 ELSE 0)
      + (IF c.CREATED.kind # "absent" THEN 1 ELSE 0)
      + c.body

RECURSIVE SumLen(_, _)
SumLen(seq, i) ==
    IF i > Len(seq) THEN 0 ELSE ComponentLen(seq[i]) + SumLen(seq, i + 1)

\* create_calendar_with_events: a new calendar with the replicated
\* properties and the given events as sub-components.
create_calendar_with_events(props, event_list) ==
    [props |-> props, subcomponents |-> event_list]

\* len(cal.to_ical())
ToIcalLen(cal) ==
    2 + Cardinality(DOMAIN cal.props) + SumLen(cal.subcomponents, 1)

\* Mutant: METHOD is missing from the list of replicated properties.
CalProperties_NoMethod(props) == Restrict(props, CarriedAttrs \ {"METHOD"})

\* the calendar properties picked up at lines 64-67
CalProperties(props) == Restrict(props, CarriedAttrs)

\* ------------------------------------------------------ the split loop

\* line 91: the condition under which the batch is written
ShouldFlush(current_size, event) ==
    current_size >= max_size \/ event = events[Len(events)]

\* Mutant: the last event is removed whenever the size is reached, also from
\* a batch of one.
BatchToWrite_AlwaysPop(current_size, batch) ==
    IF current_size >= max_size
    THEN SubSeq(batch, 1, Len(batch) - 1)
    ELSE batch

\* Mutant: the event that made the batch overflow is not removed.
BatchToWrite_NoPop(current_size, batch) == batch

\* lines 93-95: the batch that is written
BatchToWrite(current_size, batch) ==
    IF current_size >= max_size /\ Len(batch) > 1
    THEN SubSeq(batch, 1, Len(batch) - 1)
    ELSE batch

\* lines 106-109: the batch the next iteration starts from
NextBatch(current_size, written, event) ==
    IF current_size >= max_size /\ Len(written) > 1
    THEN <<event>>
    ELSE <<>>

\* Mutant: the counter is not incremented after a write.
NextCounter_Stuck(counter) == counter

\* line 80
InitialCounter == 1

\* line 111
NextCounter(counter) == counter + 1

\* the file written at lines 98-100 (and 115-119)
WrittenFile(counter, batch) ==
    LET cal == create_calendar_with_events(cal_properties, batch)
    IN  [name |-> OutputName(base_name, counter),
         props |-> cal.props,
         events |-> cal.subcomponents,
         size |-> ToIcalLen(cal)]

\* The lengths at which the environment cuts a file short when a write
\* fails after open(..., 'wb') created it: at once, or at a file size limit
\* of 3 or of 9 bytes.
TruncationChoices == {0, 3, 9}

\* What a write that raises leaves on disk of the part it was writing:
\* nothing when open fails; the file, empty or cut short, when the write or
\* the close fails after open created it; the whole file when the size
\* lookup or the report after the write fails.
FailedWriteOutcomes(file) ==
    {<<>>} \cup
    { <<[name |-> file.name, size |-> n, of |-> file.size]>> :
          n \in { t \in TruncationChoices : t < file.size } \cup {file.size} }

\* ------------------------------------------------------------- actions

Init ==
    /\ pc = "start"
    /\ input_file \in InputFileChoices
    /\ input_props \in InputPropsChoices
    /\ input_components \in SeqsUpTo(ComponentUniverse, MaxComponents)
    /\ limit_bytes \in LimitChoices
    /\ max_size = 0
    /\ events = <<>>
    /\ cal_properties = Restrict(input_props, {})
    /\ base_name = <<>>
    /\ current_events = <<>>
    /\ file_counter = 0
    /\ idx = 0
    /\ files = <<>>
    /\ failed_part = <<>>
    /\ outcome = "running"
    /\ probe_event = Component("VEVENT", Absent, Absent, Absent, 0)
    /\ probe_key = DateTimeMin

\* Mutant: the first part file is created before the input is parsed.
ParseFail_AfterWrite ==
    /\ pc = "start"
    /\ pc' = "parse_failed"
    /\ outcome' = "error"
    /\ max_size' = EffectiveLimit(limit_bytes)
    /\ files' = <<WrittenFile(1, <<>>)>>
    /\ UNCHANGED extras
    /\ UNCHANGED failed_part
    /\ UNCHANGED <<input_file, input_props, input_components, limit_bytes,
                   events, cal_properties, base_name, current_events,
                   file_counter, idx>>

\* lines 51-52 raise (the input is not a calendar); main reports the error.
ParseFail ==
    /\ pc = "start"
    /\ pc' = "parse_failed"
    /\ outcome' = "error"
    /\ max_size' = EffectiveLimit(limit_bytes)
    /\ UNCHANGED extras
    /\ UNCHANGED failed_part
    /\ UNCHANGED <<input_file, input_props, input_components, limit_bytes,
                   events, cal_properties, base_name, current_events,
                   file_counter, idx, files>>

\* Mutant: a calendar without events is treated as an error.
NoEvents_Raises ==
    /\ pc = "start"
    /\ VEvents(input_components) = <<>>
    /\ pc' = "write_failed"
    /\ outcome' = "error"
    /\ max_size' = EffectiveLimit(limit_bytes)
    /\ UNCHANGED extras
    /\ UNCHANGED failed_part
    /\ UNCHANGED <<input_file, input_props, input_components, limit_bytes,
                   events, cal_properties, base_name, current_events,
                   file_counter, idx, files>>

\* lines 48-58 with no VEVENT: the notice is printed, split_ics_file
\* returns and main reports success.
NoEvents ==
    /\ pc = "start"
    /\ VEvents(input_components) = <<>>
    /\ pc' = "done"
    /\ outcome' = "success"
    /\ max_size' = EffectiveLimit(limit_bytes)
    /\ UNCHANGED extras
    /\ UNCHANGED failed_part
    /\ UNCHANGED <<input_file, input_props, input_components, limit_bytes,
                   events, cal_properties, base_name, current_events,
                   file_counter, idx, files>>

\* lines 48-81 with at least one VEVENT
Setup ==
    /\ pc = "start"
    /\ VEvents(input_components) # <<>>
    /\ max_size' = EffectiveLimit(limit_bytes)
    /\ events' = SortEvents(VEvents(input_components))
    /\ cal_properties' = CalProperties(input_props)
    /\ current_events' = <<>>
    /\ file_counter' = InitialCounter
    /\ base_name' = SplitextRoot(input_file)
    /\ idx' = 1
    /\ pc' = "loop"
    /\ UNCHANGED extras
    /\ UNCHANGED failed_part
    /\ UNCHANGED <<input_file, input_props, input_components, limit_bytes,
                   files, outcome>>

\* one iteration of the loop of lines 84-111
LoopStep ==
    /\ pc = "loop"
    /\ LET event == events[idx]
           batch == Append(current_events, event)
           current_size ==
               ToIcalLen(create_calendar_with_events(cal_properties, batch))
           written == BatchToWrite(current_size, batch)
       IN  IF ShouldFlush(current_size, event)
           THEN /\ files' = Append(files, WrittenFile(file_counter, written))
                /\ current_events' = NextBatch(current_size, written, event)
                /\ file_counter' = NextCounter(file_counter)
           ELSE /\ current_events' = batch
                /\ UNCHANGED <<files, file_counter>>
    /\ idx' = idx + 1
    /\ pc' = IF idx = Len(events) THEN "remaining" ELSE "loop"
    /\ UNCHANGED extras
    /\ UNCHANGED failed_part
    /\ UNCHANGED <<input_file, input_props, input_components, limit_bytes,
                   max_size, events, cal_properties, base_name, outcome>>

\* Mutant: the error of a write is caught inside the loop, which goes on
\* with the next part.
LoopWriteFail_Swallowed ==
    /\ pc = "loop"
    /\ LET event == events[idx]
           batch == Append(current_events, event)
           current_size ==
               ToIcalLen(create_calendar_with_events(cal_properties, batch))
           written == BatchToWrite(current_size, batch)
       IN  /\ ShouldFlush(current_size, event)
           /\ current_events' = NextBatch(current_size, written, event)
    /\ file_counter' = NextCounter(file_counter)
    /\ idx' = idx + 1
    /\ pc' = IF idx = Len(events) THEN "remaining" ELSE "loop"
    /\ outcome' = "error"
    /\ UNCHANGED extras
    /\ UNCHANGED failed_part
    /\ UNCHANGED <<input_file, input_props, input_components, limit_bytes,
                   max_size, events, cal_properties, base_name, files>>

\* an iteration in which the write of the part raises (lines 99-103: open,
\* write, close, getsize or print); main reports the error.
LoopWriteFail ==
    /\ pc = "loop"
    /\ LET event == events[idx]
           batch == Append(current_events, event)
           current_size ==
               ToIcalLen(create_calendar_with_events(cal_properties, batch))
           written == BatchToWrite(current_size, batch)
       IN  /\ ShouldFlush(current_size, event)
           /\ current_events' = written
           /\ failed_part' \in
                  FailedWriteOutcomes(WrittenFile(file_counter, written))
    /\ pc' = "write_failed"
    /\ outcome' = "error"
    /\ UNCHANGED extras
    /\ UNCHANGED <<input_file, input_props, input_components, limit_bytes,
                   max_size, events, cal_properties, base_name, file_counter,
                   idx, files>>

\* lines 113-122, then main reports success
Remaining ==
    /\ pc = "remaining"
    /\ files' = IF current_events # <<>>
                THEN Append(files, WrittenFile(file_counter, current_events))
                ELSE files
    /\ pc' = "done"
    /\ outcome' = "success"
    /\ UNCHANGED extras
    /\ UNCHANGED failed_part
    /\ UNCHANGED <<input_file, input_props, input_components, limit_bytes,
                   max_size, events, cal_properties, base_name, current_events,
                   file_counter, idx>>

\* the final write raises (lines 118-122: open, write, close, getsize or
\* print); main reports the error.
RemainingWriteFail ==
    /\ pc = "remaining"
    /\ current_events # <<>>
    /\ failed_part' \in
           FailedWriteOutcomes(WrittenFile(file_counter, current_events))
    /\ pc' = "write_failed"
    /\ outcome' = "error"
    /\ UNCHANGED extras
    /\ UNCHANGED <<input_file, input_props, input_components, limit_bytes,
                   max_size, events, cal_properties, base_name, current_events,
                   file_counter, idx, files>>

Next ==
    \/ ParseFail
    \/ NoEvents
    \/ Setup
    \/ LoopStep
    \/ LoopWriteFail
    \/ Remaining
    \/ RemainingWriteFail

Spec == Init /\ [][Next]_vars

\* ------------------------------------------- get_event_date on its own

InitKey ==
    /\ pc = "key_call"
    /\ probe_event \in ProbeEvents
    /\ probe_key = DateTimeMin
    /\ input_file = <<"cal", ".", "ics">>
    /\ input_props = Restrict([a \in CarriedAttrs |-> "v"], {})
    /\ input_components = <<>>
    /\ limit_bytes = 10
    /\ max_size = 0
    /\ events = <<>>
    /\ cal_properties = Restrict(input_props, {})
    /\ base_name = <<>>
    /\ current_events = <<>>
    /\ file_counter = 0
    /\ idx = 0
    /\ files = <<>>
    /\ failed_part = <<>>
    /\ outcome = "running"

\* one call of get_event_date (lines 27-40)
KeyCall ==
    /\ pc = "key_call"
    /\ probe_key' = get_event_date(probe_event)
    /\ pc' = "key_returned"
    /\ UNCHANGED <<input_file, input_props, input_components, limit_bytes,
                   max_size, events, cal_properties, base_name, current_events,
                   file_counter, idx, files, failed_part, outcome,
                   probe_event>>

SpecKey == InitKey /\ [][KeyCall]_vars

\* ------------------------------------------------------------ properties

\* The run has finished and main has reported success.
Completed == pc = "done" /\ outcome = "success"

RECURSIVE ConcatFrom(_, _)
ConcatFrom(fs, i) ==
    IF i > Len(fs) THEN <<>> ELSE fs[i].events \o ConcatFrom(fs, i + 1)

\* The events of the written files, concatenated in file order.
WrittenEvents == ConcatFrom(files, 1)

Count(e, seq) == Cardinality({ i \in 1..Len(seq) : seq[i] = e })

\* The size of the calendar that holds exactly the given events.
SizeOf(event_list) ==
    ToIcalLen(create_calendar_with_events(CalProperties(input_props), event_list))

\* Stable sort by selection: the first element of least key comes first.
RECURSIVE StableSorted(_)
StableSorted(seq) ==
    IF seq = <<>> THEN <<>>
    ELSE LET least == CHOOSE i \in 1..Len(seq) :
                 /\ \A j \in 1..Len(seq) :
                        ~KeyLess(get_event_date(seq[j]), get_event_date(seq[i]))
                 /\ \A j \in 1..(i - 1) :
                        KeyLess(get_event_date(seq[i]), get_event_date(seq[j]))
         IN  <<seq[least]>> \o
             StableSorted(SubSeq(seq, 1, least - 1) \o
                          SubSeq(seq, least + 1, Len(seq)))

\* C1 (as claimed): when the split finishes without error, the multiset of
\* events in the written files equals the multiset of VEVENTs of the input.
C1_Completeness ==
    Completed =>
        \A e \in EventUniverse :
            Count(e, WrittenEvents) = Count(e, VEvents(input_components))

\* C2 (as claimed): when the split finishes without error, the events of the
\* written files, concatenated in file order, are the input's events stably
\* sorted by sort key.
C2_Ordering ==
    Completed => WrittenEvents = StableSorted(VEvents(input_components))

\* C3: every written file with a number of events other than one is at most
\* the configured limit in size; a file larger than the limit holds exactly
\* one event; a file of two or more events is below the effective limit.
C3_SizeBound ==
    \A k \in 1..Len(files) :
        /\ Len(files[k].events) # 1 => files[k].size <= limit_bytes
        /\ files[k].size > limit_bytes => Len(files[k].events) = 1
        /\ Len(files[k].events) >= 2 => files[k].size < max_size

\* C3 witness: a finished split that wrote a file of several events and a
\* file of one event larger than the configured limit.
C3_Witness ==
    /\ Completed
    /\ \E k \in 1..Len(files) : Len(files[k].events) >= 2
    /\ \E k \in 1..Len(files) :
           Len(files[k].events) = 1 /\ files[k].size > limit_bytes

\* C4 (as claimed): when the split finishes without error, every event whose
\* one-event serialisation reaches the limit is in a file of its own.
C4_OversizedAlone ==
    Completed =>
        \A i \in 1..Len(events) :
            SizeOf(<<events[i]>>) >= limit_bytes =>
                \E k \in 1..Len(files) : files[k].events = <<events[i]>>

\* C5 (as claimed): when every event alone is below the effective limit and
\* every two consecutive events together reach it, a finished split has
\* written as many files as there are events, one event each.
C5_OnePerFile ==
    ( /\ Completed
      /\ events # <<>>
      /\ \A i \in 1..Len(events) : SizeOf(<<events[i]>>) < max_size
      /\ \A i \in 1..(Len(events) - 1) :
             SizeOf(<<events[i], events[i + 1]>>) >= max_size )
    => /\ Len(files) = Len(events)
       /\ \A k \in 1..Len(files) : Len(files[k].events) = 1

\* C6 (as claimed): when all events together serialise below the effective
\* limit, a finished split has written exactly one file, part 1, holding
\* all the events.
C6_SingleFile ==
    ( /\ Completed
      /\ events # <<>>
      /\ SizeOf(events) < max_size )
    => /\ Len(files) = 1
       /\ files[1].events = events
       /\ files[1].name.part = 1

\* C7: an input that parses and has no VEVENT never has a file written, and
\* once past parsing the run has ended with success.
C7_EmptyCase ==
    VEvents(input_components) = <<>> =>
        /\ files = <<>>
        /\ failed_part = <<>>
        /\ pc \notin {"start", "parse_failed"} =>
               pc = "done" /\ outcome = "success"

\* C7 witness: a finished run on a calendar that has components, none of
\* them an event.
C7_Witness ==
    /\ pc = "done"
    /\ input_components # <<>>
    /\ VEvents(input_components) = <<>>

\* C8: the k-th file written is named part k, the counter is one more than
\* the number of files written while the split is under way, and no two
\* written files have the same name.
C8_PartNumbering ==
    /\ \A k \in 1..Len(files) : files[k].name.part = k
    /\ pc \in {"loop", "remaining"} => file_counter = Len(files) + 1
    /\ \A j, k \in 1..Len(files) :
           j # k => files[j].name # files[k].name

\* C8 witness: a finished split whose files were written by the loop and by
\* the final flush.
C8_Witness ==
    /\ Completed
    /\ Len(files) >= 3
    /\ current_events # <<>>

\* C9 (as claimed): every output file name is the base name of the input,
\* the part counter and the original extension of the input.
C9_OutputExtension ==
    \A k \in 1..Len(files) :
        files[k].name = [root |-> SplitextRoot(input_file),
                         part |-> k,
                         ext |-> SplitextExt(input_file)]

\* C10: every written file carries exactly those of VERSION, PRODID,
\* CALSCALE and METHOD that the input has, with the input's values, and all
\* written files carry the same properties.
C10_MetadataReplication ==
    /\ \A k \in 1..Len(files) :
           /\ DOMAIN files[k].props = (DOMAIN input_props) \cap CarriedAttrs
           /\ \A a \in DOMAIN files[k].props :
                  files[k].props[a] = input_props[a]
    /\ \A j, k \in 1..Len(files) : files[j].props = files[k].props

\* C10 witness: a finished split that wrote two files for an input that has
\* VERSION and PRODID, lacks CALSCALE and METHOD and has a property that is
\* not replicated.
C10_Witness ==
    /\ Completed
    /\ Len(files) >= 2
    /\ "X-WR-CALNAME" \in DOMAIN input_props
    /\ "METHOD" \notin DOMAIN input_props
    /\ files[2].props["VERSION"] = "2.0"

\* C11: when parsing the input fails the run has ended with the error
\* reported, and no file has been written.
C11_ParseFailure ==
    pc = "parse_failed" =>
        outcome = "error" /\ files = <<>> /\ failed_part = <<>>

\* C11 witness: a run that ended with a parse failure.
C11_Witness == pc = "parse_failed" /\ outcome = "error"

\* C12: the step in which the write of part k fails leaves the files
\* part1..part(k-1) as they are and reports the error; the only other file
\* it can leave is part k itself, whole or cut short; no step follows a
\* failed write (no retry, no later file); an error is reported only by a
\* run that has stopped.
C12_WriteFailure ==
    [][ /\ pc # "write_failed"
        /\ pc' = "write_failed" =>
               /\ files' = files
               /\ outcome' = "error"
               /\ Len(files') = file_counter' - 1
               /\ \A k \in 1..Len(files') : files'[k].name.part = k
               /\ \A i \in 1..Len(failed_part') :
                      /\ failed_part'[i].name.part = file_counter'
                      /\ failed_part'[i].size <= failed_part'[i].of
               /\ Len(failed_part') <= 1
        /\ pc' # "write_failed" => failed_part' = <<>>
        /\ outcome' = "error" => pc' \in {"parse_failed", "write_failed"}
      ]_vars

\* C12 witness: the write of the third part failed after the file was
\* opened: two parts are on disk whole and the third cut short.
C12_Witness ==
    /\ pc = "write_failed"
    /\ file_counter = 3
    /\ Len(files) = 2
    /\ failed_part # <<>>
    /\ failed_part[1].name.part = 3
    /\ failed_part[1].size < failed_part[1].of

\* The measured size after the event at the loop position is appended.
MeasuredSize ==
    ToIcalLen(create_calendar_with_events(
                  cal_properties, Append(current_events, events[idx])))

\* C14 (as claimed): an iteration whose measured size reaches the effective
\* limit with two or more events in the batch writes the batch without the
\* appended event and leaves exactly that event as the new batch.
C14_OverflowStep ==
    [][ ( /\ pc = "loop"
          /\ pc' \in {"loop", "remaining"}
          /\ MeasuredSize >= max_size
          /\ Len(current_events) >= 1 )
        => /\ files' = Append(files, WrittenFile(file_counter, current_events))
           /\ current_events' = <<events[idx]>>
      ]_vars

\* C15 (as claimed): an iteration writes a file only if the measured size
\* is at or above the effective limit or the event is at the last position
\* of the sorted list.
C15_FlushTrigger ==
    [][ (pc = "loop" /\ Len(files') > Len(files))
        => (MeasuredSize >= max_size \/ idx = Len(events))
      ]_vars

\* C16 (as claimed): a run that does not fail ends with no event unwritten:
\* every event of the sorted list is in a written file, and the batch left
\* after the loop is empty or is the last file, written under the counter.
C16_EndOfInputFlush ==
    Completed =>
        /\ \A e \in EventUniverse :
               Count(e, events) = Count(e, WrittenEvents)
        /\ \/ current_events = <<>>
           \/ /\ files # <<>>
              /\ files[Len(files)].events = current_events
              /\ files[Len(files)].name.part = file_counter

\* C18: every written file holds at least one event.
C18_NoEmptyFile ==
    \A k \in 1..Len(files) : Len(files[k].events) >= 1

\* C18 witness: a finished split whose first file was written by the loop
\* and whose second file was written by the final flush.
C18_Witness ==
    /\ Completed
    /\ Len(files) = 2
    /\ current_events # <<>>
    /\ files[2].events = current_events

\* The sort key a date value stands for: its day and time of day as
\* written, midnight for a date.
WallClock(v) ==
    [day |-> v.day, tod |-> IF v.kind = "date" THEN 0 ELSE v.tod]

\* C17: get_event_date returns the value of DTSTART when present, else of
\* DTSTAMP when present, else of CREATED when present (a date at midnight,
\* a date-time as written, its offset dropped), else the least point in
\* time, which no returned value precedes.
C17_SortKeyPriority ==
    pc = "key_returned" =>
        /\ probe_event.DTSTART # Absent =>
               probe_key = WallClock(probe_event.DTSTART)
        /\ (probe_event.DTSTART = Absent /\ probe_event.DTSTAMP # Absent) =>
               probe_key = WallClock(probe_event.DTSTAMP)
        /\ ( /\ probe_event.DTSTART = Absent
             /\ probe_event.DTSTAMP = Absent
             /\ probe_event.CREATED # Absent ) =>
               probe_key = WallClock(probe_event.CREATED)
        /\ ( /\ probe_event.DTSTART = Absent
             /\ probe_event.DTSTAMP = Absent
             /\ probe_event.CREATED = Absent ) =>
               probe_key = DateTimeMin
        /\ ~KeyLess(probe_key, DateTimeMin)

\* C17 witness: the key of an event without DTSTART whose DTSTAMP carries an
\* offset and whose CREATED holds an earlier value.
C17_Witness ==
    /\ pc = "key_returned"
    /\ probe_event.DTSTART = Absent
    /\ probe_event.DTSTAMP = Aware(2, 1, 1)
    /\ probe_event.CREATED = DateOnly(1)
    /\ probe_key = [day |-> 2, tod |-> 1]

====
